---- MODULE Spec2Model ----
(***************************************************************************)
(* Model of scripts/processFiles_sm.py: the resumable streaming filter.   *)
(*                                                                         *)
(* Disk state (survives a kill): the shard files, the checkpoint file     *)
(* progress.log, the error log.  Process state (lost by a kill): the      *)
(* position of main/processFolder/processFile, the SplitWriter fields and *)
(* the text buffer of the open shard handle (open(..., "a") is buffered   *)
(* and write() never flushes).                                             *)
(*                                                                         *)
(* Scaling: rows_per_file (100_000 in the source) is 2 or 3 here and the  *)
(* checkpoint modulus (1000 in the source) is 2, so that rotation and     *)
(* checkpoint boundaries happen inside files of a few rows.                *)
(*                                                                         *)
(* Spec is the program under kills and restarts; SpecLive is the program  *)
(* left to run; SpecStale starts it in an output directory that an        *)
(* earlier run over another folder left behind; SpecW drives one          *)
(* SplitWriter the way any caller of the class may.                       *)
(*                                                                         *)
(* Not modelled: the single-file branch of main (the configured path is a *)
(* directory), a container format getFileJsonStream does not recognise    *)
(* (same effect as an unknown file name: return before the writer is      *)
(* built), I/O failures of the disk, and the progress display.             *)
(***************************************************************************)
EXTENDS Integers, Sequences, FiniteSets, TLC

\* ---------------------------------------------------------------- bounds
NumFiles == 2
MaxRows == 3
MaxTotalRows == 4
MaxRuns == 2
MaxWrites == 4
MaxCloses == 3

\* ---------------------------------------------------------------- config
RowsPerFileValues == {2, 3}
save_modulus == 2

target_subreddits == {"selfhosting", "selfhosted", "homelab", "homeserver", "homenetworking"}
submissions_prefix == "filtered_submissions"
comments_prefix == "filtered_comments"

\* Base names of input files: two submission dumps (one lower-case), one
\* comment dump, one file that is neither.
BaseNames == {"RS_2023-01", "rc_2023-01", "notes"}

\* The subreddit field of a record: a string, JSON null ("NULL"), which
\* makes row.get("subreddit", "").lower() raise AttributeError, or no such
\* key at all ("MISSING").
RowValues == {"HomeLab", "funny", "NULL", "MISSING"}

\* str.lower() on the strings that occur
lower(s) ==
    CASE s = "HomeLab" -> "homelab"
      [] s = "RS_2023-01" -> "rs_2023-01"
      [] OTHER -> s

\* "rs_" in base / "rc_" in base, on the lower-cased base name
HasRs(b) == b \in {"rs_2023-01"}
HasRc(b) == b \in {"rc_2023-01"}

\* a name with neither marker classified as a comment dump
detect_file_type_default(name) ==
    LET base == lower(name)
    IN  IF HasRs(base) THEN "submission" ELSE "comment"

detect_file_type(name) ==
    LET base == lower(name)
    IN  IF HasRs(base) THEN "submission"
        ELSE IF HasRc(base) THEN "comment"
        ELSE "unknown"

prefix_map(ftype) ==
    IF ftype = "submission" THEN submissions_prefix ELSE comments_prefix

\* the filter of processFile: None.lower() raises, otherwise membership of
\* the lower-cased field in the target set
\* row.get("subreddit", "")
get_subreddit(row) == IF row = "MISSING" THEN "" ELSE row
\* row["subreddit"] in place of row.get: a record without the key raises
FilterRaises_strict(row) == row \in {"NULL", "MISSING"}
FilterRaises(row) == get_subreddit(row) = "NULL"
\* the comparison without .lower()
FilterMatches_nolower(row) == get_subreddit(row) \in target_subreddits
FilterMatches(row) == lower(get_subreddit(row)) \in target_subreddits

RowSeqs == UNION {[1..n -> RowValues] : n \in 0..MaxRows}
\* progress.log as its lines; absent or empty: no line
NoProgress == <<>>
\* None as a file (load_progress without a checkpoint) and as SplitWriter.out
NoFile == 0
None == <<"None">>

VARIABLES
    rows_per_file, \* configured rotation threshold
    input,       \* enumeration order of iter_files: [name, rows] per file
    shards,      \* disk: <<prefix, index>> -> lines of the shard file
    progress,    \* disk: progress.log, NoProgress or <<file, row>>
    errors,      \* disk: errors.log entries <<file, row>>
    pc,          \* "idle", "folder", "stream", "save", "done", "killed"
    start_file,  \* processFolder argument
    start_row,   \* processFolder argument
    started,     \* processFolder local
    cur,         \* position of the for loop of processFolder
    row_start,   \* start_row argument of the running processFile
    i,           \* row ordinal of the for loop of processFile
    prefix,      \* SplitWriter.prefix
    file_index,  \* SplitWriter.file_index
    row_count,   \* SplitWriter.row_count
    out,         \* SplitWriter.out: None or the shard <<prefix, index>> of the handle
    is_open,     \* whether the handle out is open (not yet closed)
    buf,         \* lines accepted by out.write() that are not yet on disk
    runs,        \* number of times main() was started
    handled,     \* history: <<file, row>> whose loop body ran to its end
    accepted,    \* history: <<file, row>> that some write() returned for
    wseq,        \* history: rows the current SplitWriter accepted, in order
    sealed,      \* history: shards whose handle has been closed
    seen,        \* history: <<file, row>> handled by this run of main, in order
    fresh,       \* history: the current SplitWriter was built on an empty output_dir
    last_save,   \* history: arguments of the latest save_progress call
    kill_info,   \* history: where the latest kill hit, NoKill before any
    closes       \* history: close() calls on the current SplitWriter

vars == <<rows_per_file, input, shards, progress, errors, pc, start_file, start_row, started,
          cur, row_start, i, prefix, file_index, row_count, out, is_open, buf,
          runs, handled, accepted, wseq, sealed, seen, fresh, last_save,
          kill_info, closes>>

disk == <<rows_per_file, input, shards, progress, errors>>
folder == <<start_file, start_row, started, cur>>
writer == <<prefix, file_index, row_count, out, is_open, buf>>
history == <<handled, accepted, wseq, sealed, seen, fresh, last_save, kill_info,
             closes>>

NoSave == <<>>
NoKill == [file |-> NoFile, saved |-> FALSE]

RECURSIVE SumLen(_, _)
SumLen(inp, n) == IF n = 0 THEN 0 ELSE Len(inp[n].rows) + SumLen(inp, n - 1)
TotalRows(inp) == SumLen(inp, NumFiles)

\* the process before main() is started, and the history of nothing
InitProcess ==
    /\ errors = <<>>
    /\ pc = "idle"
    /\ start_file = NoFile
    /\ start_row = 0
    /\ started = FALSE
    /\ cur = 1
    /\ row_start = 0
    /\ i = 0
    /\ prefix = ""
    /\ file_index = 0
    /\ row_count = 0
    /\ out = None
    /\ is_open = FALSE
    /\ buf = <<>>
    /\ runs = 0
    /\ handled = {}
    /\ accepted = {}
    /\ wseq = <<>>
    /\ sealed = {}
    /\ seen = <<>>
    /\ fresh = FALSE
    /\ kill_info = NoKill
    /\ closes = 0

Init ==
    /\ rows_per_file \in RowsPerFileValues
    /\ input \in [1..NumFiles -> [name : BaseNames, rows : RowSeqs]]
    /\ TotalRows(input) <= MaxTotalRows
    /\ shards = <<>>
    /\ progress = NoProgress
    /\ last_save = NoSave
    /\ InitProcess

\* ------------------------------------------------------------ disk helpers
Lines(S, sh) == IF sh \in DOMAIN S THEN S[sh] ELSE <<>>

\* open(filename, "a"): creates the file when absent, keeps its lines
OpenAppend(S, sh) ==
    [x \in DOMAIN S \cup {sh} |-> Lines(S, x)]

\* the buffered lines of handle sh reach the file
FlushTo(S, sh, lines) ==
    [x \in DOMAIN S \cup {sh} |-> IF x = sh THEN Lines(S, sh) \o lines ELSE S[x]]

\* ------------------------------------------------------ checkpoint store
\* the paths iter_files yields, by position, and a path outside the folder
EnumPaths == <<"testdata/a", "testdata/b", "testdata/c", "testdata/d">>
ForeignPath == "elsewhere/RS_old"
Foreign == NumFiles + 1
PathOf(f) == IF f \in 1..NumFiles THEN EnumPaths[f] ELSE ForeignPath
\* the enumerated file whose abspath equals p, Foreign when there is none
FileOf(p) ==
    IF \E f \in 1..NumFiles : EnumPaths[f] = p
      THEN CHOOSE f \in 1..NumFiles : EnumPaths[f] = p
      ELSE Foreign

\* f"{row_idx}" and int(row_idx) on the ordinals that occur
Digits == <<"0", "1", "2", "3", "4", "5", "6", "7", "8", "9">>
str(n) == Digits[n + 1]
int(t) == CHOOSE n \in 0..9 : Digits[n + 1] = t

\* f"{filename}\t{row_idx}\n" as its pieces
progress_line(f, r) == <<PathOf(f), "\t", str(r), "\n">>
\* line.strip() and line.split("\t")
strip(line) == SelectSeq(line, LAMBDA x : x # "\n")
split(line) == SelectSeq(line, LAMBDA x : x # "\t")

\* the checkpoint names the row after the one just written
save_progress_ahead(f, r) == <<progress_line(f, r + 1)>>
\* open(progress_file, "a"): the line is added after the earlier ones
save_progress_append(f, r) == Append(progress, progress_line(f, r))
\* open(progress_file, "w") and one write: the file is this one line
save_progress(f, r) == <<progress_line(f, r)>>
\* readline() of the first line; (None, 0) without a file or a line
load_progress ==
    IF progress = NoProgress
      THEN <<NoFile, 0>>
      ELSE LET line == strip(progress[1])
           IN  IF line = <<>>
                 THEN <<NoFile, 0>>
                 ELSE <<FileOf(split(line)[1]), int(split(line)[2])>>

\* ------------------------------------------------------------------ main
\* main(): load_progress, then processFolder up to its for loop
Main ==
    /\ pc \in {"idle", "done", "killed"}
    /\ runs < MaxRuns
    /\ runs' = runs + 1
    /\ start_file' = load_progress[1]
    /\ start_row' = load_progress[2]
    /\ started' = (load_progress[1] = NoFile)
    /\ cur' = 1
    /\ pc' = "folder"
    /\ seen' = <<>>
    /\ UNCHANGED <<disk, row_start, i, writer, handled, accepted, wseq, sealed,
                   fresh, last_save, kill_info, closes>>

\* ---------------------------------------------------------- processFolder
\* started = True from the outset: the resume file is not looked for
Processes_always == TRUE
\* whether the loop body hands the file at hand to processFile
Processes == started \/ cur = start_file

\* a file enumerated before start_file: neither branch of the loop body runs
FolderSkip ==
    /\ pc = "folder"
    /\ cur <= NumFiles
    /\ ~Processes
    /\ cur' = cur + 1
    /\ UNCHANGED <<disk, pc, start_file, start_row, started, row_start, i,
                   writer, runs, history>>

\* start_row handed to every file, not only to the resume file
RowArg_always == start_row
\* start_row handed to the files after the resume file, not to the resume file
RowArg_swapped == IF started THEN start_row ELSE 0
\* the start_row the loop body passes to processFile
RowArg == IF started THEN 0 ELSE start_row

\* processFile on a file that detect_file_type does not recognise: returns
\* before open(path)
ProcessUnknown ==
    /\ pc = "folder"
    /\ cur <= NumFiles
    /\ Processes
    /\ detect_file_type(input[cur].name) = "unknown"
    /\ started' = TRUE
    /\ cur' = cur + 1
    /\ UNCHANGED <<disk, pc, start_file, start_row, row_start, i, writer,
                   runs, history>>

\* SplitWriter(p): __init__ and its _open_new_file
SplitWriter(p) ==
    /\ prefix' = p
    /\ out' = <<p, 0>>
    /\ shards' = OpenAppend(shards, <<p, 0>>)
    /\ is_open' = TRUE
    /\ row_count' = 0
    /\ file_index' = 1
    /\ buf' = <<>>
    /\ wseq' = <<>>
    /\ fresh' = (shards = <<>>)
    /\ closes' = 0

\* processFile up to its for loop: SplitWriter(prefix) and _open_new_file
ProcessOpen ==
    /\ pc = "folder"
    /\ cur <= NumFiles
    /\ Processes
    /\ detect_file_type(input[cur].name) # "unknown"
    /\ started' = TRUE
    /\ row_start' = RowArg
    /\ i' = 0
    /\ SplitWriter(prefix_map(detect_file_type(input[cur].name)))
    /\ pc' = "stream"
    /\ UNCHANGED <<rows_per_file, input, progress, errors, start_file,
                   start_row, cur, runs, handled, accepted, sealed, seen,
                   last_save, kill_info>>

\* the checkpoint removed once the run is complete
FolderDone_clears ==
    /\ pc = "folder"
    /\ cur > NumFiles
    /\ pc' = "done"
    /\ progress' = NoProgress
    /\ UNCHANGED <<rows_per_file, input, shards, errors, folder, row_start, i,
                   writer, runs, history>>

\* the for loop of processFolder is exhausted: main prints Done
FolderDone ==
    /\ pc = "folder"
    /\ cur > NumFiles
    /\ pc' = "done"
    /\ UNCHANGED <<disk, folder, row_start, i, writer, runs, history>>

\* ------------------------------------------------------------ processFile
Rows == input[cur].rows
Row == Rows[i + 1]

\* if i < start_row: continue
RowSkip ==
    /\ pc = "stream"
    /\ i < Len(Rows)
    /\ i < row_start
    /\ i' = i + 1
    /\ UNCHANGED <<disk, pc, folder, row_start, writer, runs, history>>

\* the exception logged, but the rest of the file abandoned
RowError_abort ==
    /\ pc = "stream"
    /\ i < Len(Rows)
    /\ i >= row_start
    /\ FilterRaises(Row)
    /\ errors' = Append(errors, <<cur, i>>)
    /\ handled' = handled \cup {<<cur, i>>}
    /\ seen' = Append(seen, <<cur, i>>)
    /\ i' = Len(Rows)
    /\ UNCHANGED <<rows_per_file, input, shards, progress, pc, folder,
                   row_start, writer, runs, accepted, wseq, sealed, fresh,
                   last_save, kill_info, closes>>

\* the filter raises: except Exception -> log_error(path, i, e)
RowError ==
    /\ pc = "stream"
    /\ i < Len(Rows)
    /\ i >= row_start
    /\ FilterRaises(Row)
    /\ errors' = Append(errors, <<cur, i>>)
    /\ handled' = handled \cup {<<cur, i>>}
    /\ seen' = Append(seen, <<cur, i>>)
    /\ i' = i + 1
    /\ UNCHANGED <<rows_per_file, input, shards, progress, pc, folder,
                   row_start, writer, runs, accepted, wseq, sealed, fresh,
                   last_save, kill_info, closes>>

\* subreddit not in target_subreddits: continue (the save below is skipped)
RowMiss ==
    /\ pc = "stream"
    /\ i < Len(Rows)
    /\ i >= row_start
    /\ ~FilterRaises(Row)
    /\ ~FilterMatches(Row)
    /\ handled' = handled \cup {<<cur, i>>}
    /\ seen' = Append(seen, <<cur, i>>)
    /\ i' = i + 1
    /\ UNCHANGED <<disk, pc, folder, row_start, writer, runs, accepted, wseq,
                   sealed, fresh, last_save, kill_info, closes>>

\* whether the loop body reaches save_progress after the write of row n
SaveDue(n) == n % save_modulus = 0

\* if self.row_count >= rows_per_file, on the count after the increment
\* rotation one row late
Rotate_late(count) == count > rows_per_file
Rotate(count) == count >= rows_per_file

\* writer.write(row): the line goes to the buffer of the handle; the buffer
\* reaches the file when it fills (flush, any time) and when the handle is
\* closed by the rotation in _open_new_file
write(line, flush) ==
    LET rotate == Rotate(row_count + 1)
        next == <<prefix, file_index>>
        flushed == FlushTo(shards, out, Append(buf, line))
    IN  /\ IF rotate
             THEN /\ shards' = OpenAppend(flushed, next)
                  /\ buf' = <<>>
                  /\ sealed' = sealed \cup {out}
                  /\ out' = next
                  /\ row_count' = 0
                  /\ file_index' = file_index + 1
             ELSE /\ shards' = IF flush THEN flushed ELSE shards
                  /\ buf' = IF flush THEN <<>> ELSE Append(buf, line)
                  /\ row_count' = row_count + 1
                  /\ UNCHANGED <<sealed, out, file_index>>
        /\ accepted' = accepted \cup {line}
        /\ wseq' = Append(wseq, line)
        /\ UNCHANGED <<prefix, is_open>>

\* a matching row: writer.write(row), then the test of i % 1000
RowWrite ==
    /\ pc = "stream"
    /\ i < Len(Rows)
    /\ i >= row_start
    /\ ~FilterRaises(Row)
    /\ FilterMatches(Row)
    /\ \E flush \in BOOLEAN : write(<<cur, i>>, flush)
    /\ handled' = handled \cup {<<cur, i>>}
    /\ seen' = Append(seen, <<cur, i>>)
    /\ IF SaveDue(i)
         THEN pc' = "save" /\ i' = i
         ELSE pc' = "stream" /\ i' = i + 1
    /\ UNCHANGED <<rows_per_file, input, progress, errors, folder, row_start,
                   runs, fresh, last_save, kill_info, closes>>

\* if i % 1000 == 0: save_progress(path, i)
SaveProgress ==
    /\ pc = "save"
    /\ progress' = save_progress(cur, i)
    /\ last_save' = <<cur, i>>
    /\ pc' = "stream"
    /\ i' = i + 1
    /\ UNCHANGED <<rows_per_file, input, shards, errors, folder, row_start,
                   writer, runs, handled, accepted, wseq, sealed, seen, fresh,
                   kill_info, closes>>

\* writer.close(): closing the handle writes its buffer out; on a handle
\* that is closed already it does nothing
close ==
    /\ shards' = IF is_open THEN FlushTo(shards, out, buf) ELSE shards
    /\ buf' = <<>>
    /\ is_open' = FALSE
    /\ sealed' = sealed \cup {out}
    /\ closes' = closes + 1
    /\ UNCHANGED <<prefix, file_index, row_count, out>>

\* the end of the file without writer.close()
EndFile_noclose ==
    /\ pc = "stream"
    /\ i >= Len(Rows)
    /\ cur' = cur + 1
    /\ pc' = "folder"
    /\ UNCHANGED <<disk, start_file, start_row, started, row_start, i, writer,
                   runs, history>>

\* the stream is exhausted: writer.close(), back in the loop of processFolder
EndFile ==
    /\ pc = "stream"
    /\ i >= Len(Rows)
    /\ close
    /\ cur' = cur + 1
    /\ pc' = "folder"
    /\ UNCHANGED <<rows_per_file, input, progress, errors, start_file,
                   start_row, started, row_start, i, runs, handled, accepted,
                   wseq, seen, fresh, last_save, kill_info>>

\* the process is killed: what is on disk stays, the buffer of the open
\* handle and every local are gone
Kill ==
    /\ pc \in {"folder", "stream", "save"}
    /\ runs < MaxRuns
    /\ pc' = "killed"
    /\ buf' = <<>>
    /\ out' = None
    /\ is_open' = FALSE
    /\ fresh' = FALSE
    /\ kill_info' = IF pc = "folder"
                       THEN [file |-> NoFile, saved |-> TRUE]
                       ELSE [file |-> cur, saved |-> load_progress[1] = cur]
    /\ UNCHANGED <<disk, folder, row_start, i, prefix, file_index, row_count,
                   runs, handled, accepted, wseq, sealed, seen, last_save,
                   closes>>

Next ==
    \/ Main
    \/ FolderSkip
    \/ ProcessUnknown
    \/ ProcessOpen
    \/ FolderDone
    \/ RowSkip
    \/ RowError
    \/ RowMiss
    \/ RowWrite
    \/ SaveProgress
    \/ EndFile
    \/ Kill

Spec == Init /\ [][Next]_vars

\* A run that nothing kills: one thread that takes its next step whenever
\* it has one; when main() is started is left open.
Run ==
    \/ FolderSkip
    \/ ProcessUnknown
    \/ ProcessOpen
    \/ FolderDone
    \/ RowSkip
    \/ RowError
    \/ RowMiss
    \/ RowWrite
    \/ SaveProgress
    \/ EndFile

NextLive ==
    \/ Main
    \/ Run

SpecLive == Init /\ [][NextLive]_vars /\ WF_vars(Run)

\* An output_dir that may hold what a run over another input folder left:
\* a checkpoint naming a path that iter_files does not yield, and the row
\* that run wrote before it saved.
StaleRows == {0, 2}
StaleShards(r) == (<<submissions_prefix, 0>> :> <<<<Foreign, r>>>>)

InitStale ==
    /\ rows_per_file \in RowsPerFileValues
    /\ input \in [1..NumFiles -> [name : BaseNames, rows : RowSeqs]]
    /\ TotalRows(input) <= MaxTotalRows
    /\ \/ /\ shards = <<>>
          /\ progress = NoProgress
          /\ last_save = NoSave
       \/ \E r \in StaleRows :
            /\ shards = StaleShards(r)
            /\ progress = save_progress(Foreign, r)
            /\ last_save = <<Foreign, r>>
    /\ InitProcess

SpecStale == InitStale /\ [][Next]_vars

\* ------------------------------------------------- a SplitWriter on its own
\* what a caller of SplitWriter does not touch
client == <<rows_per_file, input, progress, errors, pc, folder, row_start, i,
            runs, handled, seen, last_save, kill_info>>

\* w = SplitWriter(p), once the writer before it (if any) has been closed
WNew ==
    /\ ~is_open
    /\ \E p \in {submissions_prefix, comments_prefix} : SplitWriter(p)
    /\ UNCHANGED <<accepted, sealed, client>>

\* w.write(row)
WWrite ==
    /\ is_open
    /\ Cardinality(accepted) < MaxWrites
    /\ \E flush \in BOOLEAN : write(<<NoFile, Cardinality(accepted)>>, flush)
    /\ UNCHANGED <<fresh, closes, client>>

\* w.close() on a handle that refuses to be closed twice
WClose_unguarded ==
    /\ out # None
    /\ closes < MaxCloses
    /\ IF is_open
          THEN close /\ UNCHANGED <<accepted, wseq, fresh, client>>
          ELSE /\ pc' = "raised"
               /\ closes' = closes + 1
               /\ UNCHANGED <<rows_per_file, input, shards, progress, errors,
                              folder, row_start, i, writer, runs, handled,
                              accepted, wseq, sealed, seen, fresh, last_save,
                              kill_info>>

\* w.close(), any number of times
WClose ==
    /\ out # None
    /\ closes < MaxCloses
    /\ close
    /\ UNCHANGED <<accepted, wseq, fresh, client>>

InitW ==
    /\ rows_per_file \in RowsPerFileValues
    /\ input = [f \in 1..NumFiles |-> [name |-> "notes", rows |-> <<>>]]
    /\ shards = <<>>
    /\ progress = NoProgress
    /\ last_save = NoSave
    /\ InitProcess

NextW == WNew \/ WWrite \/ WClose

SpecW == InitW /\ [][NextW]_vars

\* ================================================================ claims
Range(q) == {q[k] : k \in DOMAIN q}
Min(a, b) == IF a <= b THEN a ELSE b
OnDiskOf(S) == UNION {Range(S[sh]) : sh \in DOMAIN S}
OnDisk == OnDiskOf(shards)
Recognised(f) == detect_file_type(input[f].name) # "unknown"
Field(l) == input[l[1]].rows[l[2] + 1]
IsPrefix(p, q) == Len(p) <= Len(q) /\ SubSeq(q, 1, Len(p)) = p

\* the claims' own reading of "the subreddit field, lower-cased, is in the
\* target set" and of "handling the row raises"
InTargetSet(v) == v \notin {"NULL", "MISSING"} /\ lower(v) \in target_subreddits
Raises(v) == v = "NULL"

\* rows r, r+1, ... of file f in order (none when f is not recognised)
RowsFrom(f, r) ==
    IF Recognised(f)
      THEN [k \in 1..(IF Len(input[f].rows) > r THEN Len(input[f].rows) - r ELSE 0)
              |-> <<f, r + k - 1>>]
      ELSE <<>>

\* what a run handles that starts at row r of file f: the rest of f, then
\* every later file from row 0
RECURSIVE TraceFrom(_, _)
TraceFrom(f, r) ==
    IF f > NumFiles THEN <<>> ELSE RowsFrom(f, r) \o TraceFrom(f + 1, 0)

\* the matching rows, which an uninterrupted run from scratch writes
Uninterrupted == {l \in Range(TraceFrom(1, 0)) : InTargetSet(Field(l))}

\* C1: when a run of main() has completed, after any kill before it, every
\* matching row that an uninterrupted run writes is in the shard files.
C1_NoDataLoss == pc = "done" => Uninterrupted \subseteq OnDisk

\* C2: every shard file holds at most rows_per_file rows, in every
\* reachable state, over several files of one kind and over restarts.
C2_ShardCapacity == \A sh \in DOMAIN shards : Len(shards[sh]) <= rows_per_file

\* C3: between two rows of a file, when rows of it have been handled in this
\* run, the persisted checkpoint names this file and is at most
\* save_modulus - 1 rows behind the last handled row.
C3_BoundedRescan ==
    (pc = "stream" /\ i > row_start) =>
        /\ progress # NoProgress
        /\ load_progress[1] = cur
        /\ (i - 1) - load_progress[2] <= save_modulus - 1

C5_FilterCorrect ==
    /\ \A l \in handled : (l \in accepted) <=> InTargetSet(Field(l))
    /\ accepted \subseteq handled
    /\ \A l \in OnDisk \cup Range(buf) : l \in handled /\ InTargetSet(Field(l))

C5_Witness ==
    /\ \E l \in handled : Field(l) = "HomeLab" /\ l \in OnDisk
    /\ \E l \in handled : Field(l) = "funny" /\ l \notin OnDisk
    /\ \E l \in handled : Field(l) = "NULL" /\ l \notin OnDisk

\* C6: in a run that loaded the checkpoint (F, r), the rows handled so far
\* are a prefix of: rows r, r+1, ... of F, then every row of every later
\* file from row 0; at Done they are all of it; every row written in the
\* run is one of them.
C6_ResumeSemantics ==
    start_file # NoFile =>
        /\ IsPrefix(seen, TraceFrom(start_file, start_row))
        /\ pc = "done" => seen = TraceFrom(start_file, start_row)
        /\ pc \in {"stream", "save"} => Range(wseq) \subseteq Range(seen)

C6_Witness ==
    /\ pc = "done"
    /\ start_file = 1
    /\ start_row = 2
    /\ seen = <<<<1, 2>>, <<2, 0>>>>

\* C7: whenever a checkpoint (F, r) is persisted, row r of F and every row
\* of F before it has been handled (rejected by the filter, logged as an
\* error, or accepted by the writer) in this run or an earlier one.
C7_CheckpointSound ==
    progress # NoProgress =>
        \A j \in 0..load_progress[2] : <<load_progress[1], j>> \in handled

C7_Witness ==
    /\ progress # NoProgress
    /\ load_progress[2] = 2
    /\ runs = 2
    /\ row_start = 2
    /\ pc = "done"

\* C8: at the moment save_progress has persisted a checkpoint, every row
\* that SplitWriter.write accepted so far is in a shard file.
C8_DurableAtCheckpoint ==
    [][progress' # progress => accepted' \subseteq OnDiskOf(shards')]_vars

\* C9: once a shard file has been sealed, its lines never change again, in
\* this run or a later one.
C9_SealedNeverReopened ==
    [][\A sh \in sealed : Lines(shards', sh) = Lines(shards, sh)]_vars

\* C10: a SplitWriter built on an empty output directory that accepted m
\* rows and was closed leaves exactly the shards 0..(m div T), shard k
\* holding rows k*T .. min(m, (k+1)*T)-1 of the write sequence in order.
C10_RotationResult ==
    (fresh /\ ~is_open) =>
        LET m == Len(wseq)
            T == rows_per_file
        IN  /\ DOMAIN shards = {<<prefix, k>> : k \in 0..(m \div T)}
            /\ \A k \in 0..(m \div T) :
                 shards[<<prefix, k>>] = SubSeq(wseq, k * T + 1, Min(m, (k + 1) * T))

C10_Witness ==
    /\ fresh
    /\ ~is_open
    /\ rows_per_file = 2
    /\ Len(wseq) = 3
    /\ Len(shards[<<prefix, 0>>]) = 2
    /\ Len(shards[<<prefix, 1>>]) = 1

\* the configured checkpoint cadence (100 in the source, which the loop of
\* processFile never reads)
batch_size == 1

\* C11: when the first run has streamed a recognised file A to its end and
\* is killed in a later file B before any save_progress for B, the next
\* run handles no row of A and handles B from row 0.
C11_CrashInSecondFile ==
    (/\ runs = 2
     /\ pc # "killed"
     /\ kill_info.file > 1
     /\ ~kill_info.saved
     /\ \E a \in 1..(kill_info.file - 1) : Recognised(a)) =>
        /\ \A l \in Range(seen) : l[1] >= kill_info.file
        /\ IsPrefix(seen, TraceFrom(kill_info.file, 0))

\* the base name carries neither marker
Unrecognised(f) == ~HasRs(lower(input[f].name)) /\ ~HasRc(lower(input[f].name))

\* C12: processFile never streams a file whose base name has neither rs_
\* nor rc_: no writer is built for it, and the step that handles it leaves
\* the shard files, the checkpoint and the error log as they were.
C12_UnknownNoEffect ==
    /\ [](pc \in {"stream", "save"} => ~Unrecognised(cur))
    /\ [][(pc = "folder" /\ cur <= NumFiles /\ Processes /\ Unrecognised(cur)) =>
            /\ pc' \in {"folder", "killed"}
            /\ shards' = shards
            /\ progress' = progress
            /\ errors' = errors
            /\ pc' = "folder" => (cur' = cur + 1 /\ UNCHANGED writer)]_vars

C12_Witness ==
    /\ pc = "folder"
    /\ cur = 3
    /\ Unrecognised(2)
    /\ shards # <<>>
    /\ progress # NoProgress
    /\ errors # <<>>

\* C13: progress.log holds no line before the first save_progress and
\* exactly one line after any number of them; load_progress returns
\* (None, 0) in the first case and the pair of the latest save in the second.
C13_CheckpointRoundTrip ==
    IF last_save = NoSave
      THEN progress = NoProgress /\ load_progress = <<NoFile, 0>>
      ELSE Len(progress) = 1 /\ load_progress = last_save

C13_Witness ==
    /\ last_save = <<2, 0>>
    /\ <<1, 0>> \in accepted
    /\ <<1, 2>> \in accepted

\* C14: a handled record without a subreddit key is in no shard file, was
\* not accepted by the writer and has no entry in the error log.
C14_MissingFieldIsMiss ==
    \A l \in handled :
        Field(l) = "MISSING" =>
            /\ l \notin accepted
            /\ l \notin OnDisk \cup Range(buf)
            /\ l \notin Range(errors)

C14_Witness ==
    /\ pc = "done"
    /\ \E l \in handled : Field(l) = "MISSING" /\ Recognised(l[1])
    /\ errors # <<>>
    /\ OnDisk # {}

\* C16: between two rows of a file, when the last handled row's ordinal is
\* a multiple of batch_size, the persisted checkpoint is (this file, that
\* ordinal), whether or not the row matched.
C16_CheckpointCadence ==
    (pc = "stream" /\ i > row_start /\ (i - 1) % batch_size = 0) =>
        /\ progress # NoProgress
        /\ load_progress = <<cur, i - 1>>

\* number of lines of the shard files that hold row l
Copies(l) ==
    Cardinality(UNION {{<<sh, k>> : k \in {j \in DOMAIN shards[sh] : shards[sh][j] = l}} :
                          sh \in DOMAIN shards})

\* C18: a persisted checkpoint is never removed; a run that follows a
\* completed run loads the checkpoint (F, r) that the completed run left,
\* handles exactly the rows of F from r and of every later file, and leaves
\* each of their matching rows twice in the shards, every other once.
C18_CheckpointKept ==
    /\ [][progress # NoProgress => progress' # NoProgress]_vars
    /\ [](pc = "done" /\ last_save # NoSave => progress # NoProgress)
    /\ []((pc = "done" /\ runs = 2 /\ kill_info = NoKill /\ progress # NoProgress) =>
            /\ <<start_file, start_row>> = load_progress
            /\ seen = TraceFrom(start_file, start_row)
            /\ \A l \in Uninterrupted :
                 Copies(l) = IF l \in Range(seen) THEN 2 ELSE 1)

C18_Witness ==
    /\ pc = "done"
    /\ runs = 2
    /\ kill_info = NoKill
    /\ start_file = 2
    /\ \E l \in Uninterrupted : l[1] = 1 /\ Copies(l) = 1
    /\ \E l \in Uninterrupted : l[1] = 2 /\ Copies(l) = 2

\* C20: while a file is streamed the checkpoint names this file or one
\* enumerated before it, with a row not beyond the row at hand; within a
\* run a new checkpoint names a later file or, for the same file, a row
\* that is no smaller.
C20_CheckpointMonotone ==
    /\ []((pc \in {"stream", "save"} /\ progress # NoProgress) =>
            /\ load_progress[1] <= cur
            /\ (load_progress[1] = cur /\ i >= row_start) => load_progress[2] <= i)
    /\ [][(runs' = runs /\ progress # NoProgress /\ progress' # progress) =>
            \/ load_progress[1] < load_progress[1]'
            \/ /\ load_progress[1] = load_progress[1]'
               /\ load_progress[2] <= load_progress[2]']_vars

C20_Witness ==
    /\ runs = 2
    /\ pc = "stream"
    /\ load_progress = <<2, 0>>
    /\ start_file = 1
    /\ start_row = 2

\* the rows a run handles from its resume point, the whole input without one
\* C15: a close() of a SplitWriter that has been closed already raises
\* nothing and changes nothing, neither the shard files nor the writer
C15_CloseIdempotent ==
    [][(closes >= 1 /\ closes' = closes + 1) =>
           /\ pc' = pc
           /\ UNCHANGED <<shards, writer, sealed>>]_vars
C15_Witness ==
    /\ closes >= 2
    /\ Len(wseq) >= 1
    /\ \E sh \in DOMAIN shards : shards[sh] # <<>>

RunTrace == IF start_file = NoFile THEN TraceFrom(1, 0) ELSE TraceFrom(start_file, start_row)

\* C17: a run that nothing kills reaches Done, and then every recognised
\* file from the resume point on has been streamed to its last row and no
\* shard handle is open or holds unwritten lines.
C17_TerminatesSealed ==
    (pc \in {"folder", "stream", "save"}) ~>
        (pc = "done" /\ seen = RunTrace /\ ~is_open /\ buf = <<>>)

C17_Witness ==
    /\ pc = "done"
    /\ runs = 2
    /\ start_file = 1
    /\ start_row = 2
    /\ seen = <<<<1, 2>>, <<2, 0>>>>
    /\ ~is_open
    /\ sealed # {}

\* C19: a run that loaded a checkpoint naming no enumerated file hands no
\* file to processFile: it is in the loop of processFolder, at Done or
\* killed there, and the shard files, the checkpoint and the error log are
\* what they were when it started.
C19_ForeignCheckpoint ==
    start_file = Foreign =>
        /\ pc \in {"folder", "done", "killed"}
        /\ ~started
        /\ seen = <<>>
        /\ shards = StaleShards(start_row)
        /\ progress = save_progress(Foreign, start_row)
        /\ errors = <<>>

C19_Witness ==
    /\ pc = "done"
    /\ start_file = Foreign
    /\ runs = 2
    /\ \E f \in 1..NumFiles : Recognised(f) /\ "HomeLab" \in Range(input[f].rows)

====
